---- MODULE Spec2Model ----
(***************************************************************************)
(* octopus_price_bot.py: one invocation (main) loads state.json, checks    *)
(* the electricity price, checks the gas price and writes state.json.      *)
(* Prices are counted in thousandths of a euro (0.11 EUR/kWh is 110), so   *)
(* that the comparisons of the script are integer comparisons.             *)
(***************************************************************************)
EXTENDS Integers, Sequences, FiniteSets, TLC

\* Python's None, for a price that is absent.
None == -1

\* TARGET_ELECTRICITY_PRICE = 0.11, TARGET_GAS_PRICE = 0.85 (the defaults).
TARGET_ELECTRICITY_PRICE == 110
TARGET_GAS_PRICE == 850

\* The length of the observation sequences fed to check_price alone.
MaxObs == 4

\* The alerts delivered within one episode are counted up to this number.
MaxAlerts == 2

Kinds == {"electricity", "gas"}

\* main's two calls of check_price: the target each one passes.
TargetOf(kind) ==
    IF kind = "electricity" THEN TARGET_ELECTRICITY_PRICE ELSE TARGET_GAS_PRICE

\* The prices a tariff page may show for each commodity: below, at and above
\* the target, and zero.
PricesOf(kind) ==
    IF kind = "electricity" THEN {0, 50, 95, 110, 120, 150}
    ELSE {800, 850, 900}

\* What extract_price_from_text may return for a page: a price or None.
ExtractedOf(kind) == PricesOf(kind) \cup {None}

\* What requests.get may do: answer 2xx, answer 403, answer 3xx (a redirect
\* class answer that is final), answer another 4xx/5xx, or raise (connection
\* error, timeout).
Responses == {"ok", "403", "3xx", "http_error", "conn_error", "timeout"}

\* What requests.post may do: answer 2xx (r.ok), answer an error status
\* (not r.ok), or raise (connection error, timeout).
Posts == {"ok", "not_ok", "conn_error", "timeout"}

\* load_state's default record.
DefaultState ==
    [last_electricity_price |-> None,
     last_gas_price         |-> None,
     electricity_notified   |-> FALSE,
     gas_notified           |-> FALSE]

\* check_price's choice of the state keys of a commodity.
LastPrice(s, kind) ==
    IF kind = "electricity" THEN s.last_electricity_price ELSE s.last_gas_price

Notified(s, kind) ==
    IF kind = "electricity" THEN s.electricity_notified ELSE s.gas_notified

SetLastPrice_Skip(s, kind, price) == s

SetLastPrice(s, kind, price) ==
    IF kind = "electricity"
    THEN [s EXCEPT !.last_electricity_price = price]
    ELSE [s EXCEPT !.last_gas_price = price]

SetNotified_Both(s, kind, b) ==
    [s EXCEPT !.electricity_notified = b, !.gas_notified = b]

SetNotified(s, kind, b) ==
    IF kind = "electricity"
    THEN [s EXCEPT !.electricity_notified = b]
    ELSE [s EXCEPT !.gas_notified = b]

\* send_telegram_message: "False" without a request when a credential is
\* missing; otherwise r.ok of the request, or the exception requests.post
\* raises, which the function does not catch.
send_telegram_message(haveCreds, post) ==
    IF ~haveCreds THEN "False"
    ELSE IF post = "ok" THEN "True"
    ELSE IF post = "not_ok" THEN "False"
    ELSE "raise"

\* r.raise_for_status(): raises for a 4xx or 5xx status only.
raise_for_status(resp) == resp \in {"403", "http_error"}

\* fetch_price_by_scraping: None on an exception of requests.get, on 403 and
\* on raise_for_status; otherwise the price extracted from the markup when it
\* is truthy (neither None nor 0.0), else the price extracted from the
\* visible text.
fetch_price_by_scraping(resp, fromHtml, fromText) ==
    IF resp \in {"conn_error", "timeout"} THEN None
    ELSE IF resp = "403" THEN None
    ELSE IF raise_for_status(resp) THEN None
    ELSE IF fromHtml # None /\ fromHtml # 0 THEN fromHtml
    ELSE fromText

\* check_price's test for an alert (line 149).
ShouldAlert_IgnoreLock(price, target, notified) == price < target

ShouldAlert_AtOrBelow(price, target, notified) == price <= target /\ ~notified

ShouldAlert(price, target, notified) == price < target /\ ~notified

\* check_price's test for a reset of the lock (line 154).
ShouldReset_Never(price, target, notified) == FALSE

ShouldReset_StrictlyAbove(price, target, notified) == price > target /\ notified

ShouldReset_AnyPrice(price, target, notified) == notified

ShouldReset(price, target, notified) == price >= target /\ notified

\* The lock after send_telegram_message returned (lines 152-153).
NotifiedAfterSend_Unchecked(ok, notified) == TRUE

NotifiedAfterSend(ok, notified) == IF ok THEN TRUE ELSE notified

Unchanged(state) ==
    [state |-> state, called |-> FALSE, sent |-> "none", raised |-> FALSE]

\* check_price once a price was found (lines 136-162): the state it returns,
\* whether it called send_telegram_message and what that call gave, and
\* whether the call raised (the exception leaves check_price and main).
check_price_present(kind, price, target, state, haveCreds, post) ==
    LET s1 == SetLastPrice(state, kind, price)
        n  == Notified(s1, kind)
        r  == send_telegram_message(haveCreds, post)
    IN  IF ShouldAlert(price, target, n)
        THEN [state  |-> IF r = "raise" THEN s1
                         ELSE SetNotified(s1, kind, NotifiedAfterSend(r = "True", n)),
              called |-> TRUE, sent |-> r, raised |-> r = "raise"]
        ELSE IF ShouldReset(price, target, n)
        THEN Unchanged(SetNotified(s1, kind, FALSE))
        ELSE Unchanged(s1)

check_price_reset_on_absent(kind, price, target, state, haveCreds, post) ==
    IF price = None THEN Unchanged(SetNotified(state, kind, FALSE))
    ELSE check_price_present(kind, price, target, state, haveCreds, post)

\* check_price from the fetched price on: a price that is None returns the
\* state as it is (lines 132-134).
check_price(kind, price, target, state, haveCreds, post) ==
    IF price = None THEN Unchanged(state)
    ELSE check_price_present(kind, price, target, state, haveCreds, post)

\* load_state on state.json: the default when the file does not exist, the
\* stored record when it parses; json.loads raises on a corrupt file.
load_state_default_on_corrupt(st) ==
    [raised |-> FALSE,
     state  |-> IF st.status = "valid" THEN st.doc ELSE DefaultState]

load_state(st) ==
    [raised |-> st.status = "corrupt",
     state  |-> IF st.status = "valid" THEN st.doc ELSE DefaultState]

\* A save that writes the prices and leaves the locks out.
save_state_drops_lock(s) ==
    [status |-> "valid",
     doc |-> [s EXCEPT !.electricity_notified = FALSE, !.gas_notified = FALSE]]

\* save_state: state.json holds the whole dict.
save_state(s) == [status |-> "valid", doc |-> s]

(***************************************************************************)
(* extract_price_from_text: the regular expressions and their search.      *)
(***************************************************************************)

MaxSegs == 3

Digits == {"0", "1", "2", "3", "4", "5", "6", "7", "8", "9"}

DigitSeq == <<"0", "1", "2", "3", "4", "5", "6", "7", "8", "9">>

\* \s
Whitespace == {" ", "\n"}

\* The characters of a page.
Chars ==
    Digits \cup Whitespace
    \cup {".", ",", "€", "/", "<", "!", "-", ">"}
    \cup {"k", "w", "h", "s", "m", "c", "K", "W", "H", "S", "M", "C"}

LowerChar(c) ==
    CASE c = "K" -> "k" [] c = "W" -> "w" [] c = "H" -> "h"
      [] c = "S" -> "s" [] c = "M" -> "m" [] c = "C" -> "c"
      [] OTHER -> c

\* text.lower()
lower(text) == [i \in 1..Len(text) |-> LowerChar(text[i])]

\* The items of a regular expression: a character class taken once, at most
\* once, or greedily many times; an optional group; the ends of group 1.
Lit(c) == [t |-> "cls", cs |-> {c}, min |-> 1, many |-> FALSE, sub |-> <<>>]

OneOf(cs) == [t |-> "cls", cs |-> cs, min |-> 1, many |-> FALSE, sub |-> <<>>]

Opt(c) == [t |-> "cls", cs |-> {c}, min |-> 0, many |-> FALSE, sub |-> <<>>]

Star(cs) == [t |-> "cls", cs |-> cs, min |-> 0, many |-> TRUE, sub |-> <<>>]

Plus(cs) == [t |-> "cls", cs |-> cs, min |-> 1, many |-> TRUE, sub |-> <<>>]

Maybe(sub) == [t |-> "opt", cs |-> {}, min |-> 0, many |-> FALSE, sub |-> sub]

Open == [t |-> "open", cs |-> {}, min |-> 0, many |-> FALSE, sub |-> <<>>]

Close == [t |-> "close", cs |-> {}, min |-> 0, many |-> FALSE, sub |-> <<>>]

Word(s) == [i \in 1..Len(s) |-> Lit(s[i])]

\* (\d+[.,]\d+)
Numeral == <<Open, Plus(Digits), OneOf({".", ","}), Plus(Digits), Close>>

\* (?:\s*<!--[^>]*-->)?
Comment ==
    <<Maybe(<<Star(Whitespace)>> \o Word(<<"<", "!", "-", "-">>)
            \o <<Star(Chars \ {">"})>> \o Word(<<"-", "-", ">">>))>>

\* \s*€\s*/?\s*
EuroPer == <<Star(Whitespace), Lit("€"), Star(Whitespace), Opt("/"), Star(Whitespace)>>

\* \s*/?\s*
Per == <<Star(Whitespace), Opt("/"), Star(Whitespace)>>

\* k? ?wh
KWh == <<Opt("k"), Opt(" "), Lit("w"), Lit("h")>>

\* s?mc
SMc == <<Opt("s"), Lit("m"), Lit("c")>>

\* The eight patterns of a commodity, in the order of the list.
patterns(price_type) ==
    IF price_type = "gas"
    THEN << Numeral \o Comment \o EuroPer \o SMc,
            <<Lit("€"), Star(Whitespace)>> \o Numeral \o Comment \o Per \o SMc,
            Numeral \o Comment \o <<Star(Whitespace)>> \o Word(<<"€", "/", "s", "m", "c">>),
            Numeral \o Comment \o <<Star(Whitespace)>> \o Word(<<"€", "/", "m", "c">>),
            Numeral \o EuroPer \o SMc,
            <<Lit("€"), Star(Whitespace)>> \o Numeral \o Per \o SMc,
            Numeral \o <<Star(Whitespace)>> \o Word(<<"€", "/", "s", "m", "c">>),
            Numeral \o <<Star(Whitespace)>> \o Word(<<"€", "/", "m", "c">>) >>
    ELSE << Numeral \o Comment \o EuroPer \o KWh,
            <<Lit("€"), Star(Whitespace)>> \o Numeral \o Comment \o Per \o KWh,
            Numeral \o Comment \o <<Star(Whitespace)>> \o Word(<<"€", "/", "k", "W", "h">>),
            Numeral \o Comment \o <<Star(Whitespace)>> \o Word(<<"€", "/", "k", "W">>),
            Numeral \o EuroPer \o KWh,
            <<Lit("€"), Star(Whitespace)>> \o Numeral \o Per \o KWh,
            Numeral \o <<Star(Whitespace)>> \o Word(<<"€", "/", "k", "W", "h">>),
            Numeral \o <<Star(Whitespace)>> \o Word(<<"€", "/", "k", "W">>) >>

\* (\d+[.,]\d+)\s*€
GenericPattern == Numeral \o <<Star(Whitespace), Lit("€")>>

NoMatch == [ok |-> FALSE, s |-> 0, e |-> 0]

\* The number of characters of the class cs that text has from pos on.
RECURSIVE Run(_, _, _)
Run(text, pos, cs) ==
    IF pos > Len(text) \/ text[pos] \notin cs THEN 0
    ELSE 1 + Run(text, pos + 1, cs)

\* re's backtracking match of the items at pos: the first success in the
\* order re tries them (a greedy item from its longest run down, an optional
\* group taken before it is skipped), with the span of group 1.
RECURSIVE Match(_, _, _, _, _)
RECURSIVE TryCount(_, _, _, _, _, _)
Match(items, text, pos, gs, ge) ==
    IF items = <<>> THEN [ok |-> TRUE, s |-> gs, e |-> ge]
    ELSE LET it == Head(items)
             rest == Tail(items)
         IN  CASE it.t = "open" -> Match(rest, text, pos, pos, ge)
               [] it.t = "close" -> Match(rest, text, pos, gs, pos)
               [] it.t = "opt" ->
                    LET taken == Match(it.sub \o rest, text, pos, gs, ge)
                    IN  IF taken.ok THEN taken ELSE Match(rest, text, pos, gs, ge)
               [] OTHER ->
                    LET run == Run(text, pos, it.cs)
                    IN  TryCount(items, text, pos, gs, ge,
                                 IF it.many \/ run = 0 THEN run ELSE 1)

TryCount(items, text, pos, gs, ge, n) ==
    IF n < Head(items).min THEN NoMatch
    ELSE LET m == Match(Tail(items), text, pos + n, gs, ge)
         IN  IF m.ok THEN m ELSE TryCount(items, text, pos, gs, ge, n - 1)

RECURSIVE SearchFrom(_, _, _)
SearchFrom(pattern, text, i) ==
    IF i > Len(text) THEN [ok |-> FALSE, group1 |-> <<>>]
    ELSE LET m == Match(pattern, text, i, 0, 0)
         IN  IF m.ok THEN [ok |-> TRUE, group1 |-> SubSeq(text, m.s, m.e - 1)]
             ELSE SearchFrom(pattern, text, i + 1)

\* re.search(pattern, text): the leftmost match.
search(pattern, text) == SearchFrom(pattern, text, 1)

\* A replace that leaves the string as it is.
replace_nothing(s, old, new) == s

\* s.replace(old, new)
replace(s, old, new) == [i \in 1..Len(s) |-> IF s[i] = old THEN new ELSE s[i]]

DigitVal(c) == (CHOOSE i \in 1..10 : DigitSeq[i] = c) - 1

RECURSIVE Number(_)
Number(ds) ==
    IF ds = <<>> THEN 0
    ELSE 10 * Number(SubSeq(ds, 1, Len(ds) - 1)) + DigitVal(ds[Len(ds)])

RECURSIVE Stripped(_)
Stripped(ds) ==
    IF ds # <<>> /\ ds[Len(ds)] = "0" THEN Stripped(SubSeq(ds, 1, Len(ds) - 1))
    ELSE ds

\* float(s) of digits, a period and digits: the whole part, and the
\* fractional digits without the zeros at their end (as a number, and how
\* many they are). Any other character makes float raise ValueError.
float(s) ==
    IF \E i \in 1..Len(s) : s[i] \notin Digits \cup {"."}
    THEN [raised |-> TRUE, value |-> <<>>]
    ELSE LET dot == CHOOSE i \in 1..Len(s) : s[i] = "."
             frac == Stripped(SubSeq(s, dot + 1, Len(s)))
         IN  [raised |-> FALSE,
              value |-> <<Number(SubSeq(s, 1, dot - 1)), Number(frac), Len(frac)>>]

Price(v) == [ret |-> "price", value |-> v]

NoPrice == [ret |-> "None", value |-> <<>>]

Raised == [ret |-> "raise", value |-> <<>>]

\* Lines 93-96: the fallback, after no pattern of the commodity gave a price.
GenericFallback(low) ==
    LET m == search(GenericPattern, low)
    IN  IF ~m.ok THEN NoPrice
        ELSE LET f == float(replace(m.group1, ",", "."))
             IN  IF f.raised THEN Raised ELSE Price(f.value)

\* A loop that tries the fallback before the patterns of the commodity.
TryPatterns_FallbackFirst(pats, low) ==
    LET g == GenericFallback(low)
        hits == {i \in 1..Len(pats) : search(pats[i], low).ok}
        first == CHOOSE i \in hits : \A j \in hits : i <= j
    IN  IF g.ret = "price" \/ hits = {} THEN g
        ELSE Price(float(replace(search(pats[first], low).group1, ",", ".")).value)

\* Lines 84-92: the patterns in their order; the first that matches and whose
\* numeral float accepts gives the price.
RECURSIVE TryPatterns(_, _)
TryPatterns(pats, low) ==
    IF pats = <<>> THEN GenericFallback(low)
    ELSE LET m == search(Head(pats), low)
         IN  IF m.ok
             THEN LET f == float(replace(m.group1, ",", "."))
                  IN  IF f.raised THEN TryPatterns(Tail(pats), low)
                      ELSE Price(f.value)
             ELSE TryPatterns(Tail(pats), low)

extract_price_from_text(text, price_type) ==
    TryPatterns(patterns(price_type), lower(text))

\* The pieces the pages are made of.
N1067 == <<"0", ".", "1", "0", "6", "7">>

N1067c == <<"0", ",", "1", "0", "6", "7">>

N0950c == <<"0", ",", "0", "9", "5", "0">>

Segments ==
    { N1067 \o <<" ", "€", "/", "k", "W", "h">>,
      N1067c \o <<" ", "€", "/", "k", "W", "h">>,
      <<"€">> \o N0950c \o <<"/", "k", "W", "h">>,
      N1067 \o <<"<", "!", "-", "-", " ", "-", "-", ">", "€", "/", "k", "W", "h">>,
      N0950c \o <<" ", "€", " ">>,
      N1067 \o <<"€", "/", "k", "W", " ">>,
      N1067c \o <<" ", "€", "/", "S", "m", "c">>,
      N1067 \o <<"€", "/", "m", "c", " ">>,
      N0950c,
      <<" ">> }

VARIABLES
    procs,    \* the invocations of the script the scheduler may start
    store,    \* state.json: status "missing", "corrupt" or "valid", and its record
    pc,       \* pc[p]: where invocation p is in main
    mem,      \* mem[p]: the state dict of invocation p
    creds,    \* creds[p]: TELEGRAM_TOKEN and TELEGRAM_CHAT_ID are both set
    ev,       \* the last step taken: its inputs and what it did
    loaded,   \* loaded[p]: state.json as invocation p found it in load_state
    attempts, \* attempts[p][k]: the sends invocation p attempted for commodity k
    alerts,   \* alerts[k]: the alerts delivered for k since its last price at or above the target
    dirty,    \* dirty[k]: an invocation ended abnormally since that price
    overlapped, \* an invocation was started while another one was running
    hkind,    \* check_price alone: the commodity
    hstate,   \* check_price alone: the state handed from call to call
    hist,     \* check_price alone: the observations fed so far
    hsent,    \* check_price alone: the indices at which a send was attempted
    page,     \* extract_price_from_text alone: the pieces of the text
    price_type, \* extract_price_from_text alone: the commodity
    result    \* extract_price_from_text alone: what the call returned

vars == <<procs, store, pc, mem, creds, ev, loaded, attempts, alerts, dirty, overlapped, hkind, hstate, hist, hsent,
          page, price_type, result>>

mainVars == <<procs, store, pc, mem, creds, ev, loaded, attempts, alerts, dirty, overlapped>>
extractVars == <<page, price_type, result>>
harnessVars == <<hkind, hstate, hist, hsent, page, price_type, result>>

NoEvent ==
    [op |-> "none", proc |-> 0, kind |-> "none", resp |-> "none",
     price |-> None, called |-> FALSE, sent |-> "none"]

Terminal == {"idle", "done", "aborted"}

NoStore == [status |-> "missing", doc |-> DefaultState]

NoAttempts == [k \in Kinds |-> 0]

MainInit(ps) ==
    /\ procs = ps
    /\ store = NoStore
    /\ pc = [p \in ps |-> "idle"]
    /\ mem = [p \in ps |-> DefaultState]
    /\ creds = [p \in ps |-> FALSE]
    /\ ev = NoEvent
    /\ loaded = [p \in ps |-> NoStore]
    /\ attempts = [p \in ps |-> NoAttempts]
    /\ alerts = [k \in Kinds |-> 0]
    /\ dirty = [k \in Kinds |-> FALSE]
    /\ overlapped = FALSE

NotCalled == [ret |-> "not called", value |-> <<>>]

ExtractIdle ==
    /\ page = <<>>
    /\ price_type = "electricity"
    /\ result = NotCalled

HarnessIdle ==
    /\ hkind = "electricity"
    /\ hstate = DefaultState
    /\ hist = <<>>
    /\ hsent = {}
    /\ ExtractIdle

Init == MainInit({1}) /\ HarnessIdle

\* An invocation that ended: its memory is gone.
Ended(p, how) ==
    /\ pc' = [pc EXCEPT ![p] = how]
    /\ mem' = [mem EXCEPT ![p] = DefaultState]
    /\ creds' = [creds EXCEPT ![p] = FALSE]
    /\ loaded' = [loaded EXCEPT ![p] = NoStore]
    /\ attempts' = [attempts EXCEPT ![p] = NoAttempts]
    /\ IF how = "aborted"
       THEN dirty' = [k \in Kinds |-> TRUE]
       ELSE dirty' = dirty

\* main, line 166, with the module's configuration read at import (lines
\* 10-13). An exception of load_state ends the invocation.
main_load(p) ==
    /\ pc[p] \in Terminal
    /\ LET got == load_state(store)
       IN  IF got.raised
           THEN Ended(p, "aborted")
           ELSE /\ pc' = [pc EXCEPT ![p] = "electricity"]
                /\ mem' = [mem EXCEPT ![p] = got.state]
                /\ \E c \in BOOLEAN : creds' = [creds EXCEPT ![p] = c]
                /\ loaded' = [loaded EXCEPT ![p] = store]
                /\ attempts' = [attempts EXCEPT ![p] = NoAttempts]
                /\ dirty' = dirty
    /\ ev' = [NoEvent EXCEPT !.op = "load", !.proc = p]
    /\ overlapped' = (overlapped \/ \E q \in procs \ {p} : pc[q] \notin Terminal)
    /\ UNCHANGED <<procs, store, alerts>>

\* The scheduler starts an invocation only when no other one is running.
StartRun(p) ==
    /\ \A q \in procs : pc[q] \in Terminal
    /\ main_load(p)
    /\ UNCHANGED harnessVars

\* What one fetch may give check_price: the answer of requests.get and the
\* price fetch_price_by_scraping makes of it.
FetchOutcomes(kind) ==
    { <<resp, fetch_price_by_scraping(resp, fromHtml, fromText)>> :
        resp \in Responses, fromHtml \in ExtractedOf(kind), fromText \in ExtractedOf(kind) }

\* The observation is a price at or above the target of its commodity.
AtOrAboveTarget(kind, price) == price # None /\ price >= TargetOf(kind)

\* state.json after a call of check_price: check_price does not write it.
StoreAfterCheck_Saves(st, out) == save_state(out.state)

StoreAfterCheck(st, out) == st

\* main, lines 170-176: one call of check_price, for electricity and then for
\* gas. An exception of send_telegram_message ends the invocation.
main_check(p, kind) ==
    /\ pc[p] = kind
    /\ \E f \in FetchOutcomes(kind) :
         \E out \in { check_price(kind, f[2], TargetOf(kind), mem[p], creds[p], post) :
                        post \in Posts } :
             /\ IF out.raised
                THEN Ended(p, "aborted")
                ELSE /\ mem' = [mem EXCEPT ![p] = out.state]
                     /\ pc' = [pc EXCEPT ![p] = IF kind = "electricity" THEN "gas" ELSE "save"]
                     /\ creds' = creds
                     /\ loaded' = loaded
                     /\ attempts' = [attempts EXCEPT ![p][kind] = @ + (IF out.called THEN 1 ELSE 0)]
                     /\ dirty' = [dirty EXCEPT ![kind] = @ /\ ~AtOrAboveTarget(kind, f[2])]
             /\ alerts' = [alerts EXCEPT ![kind] =
                             IF AtOrAboveTarget(kind, f[2]) THEN 0
                             ELSE IF out.sent = "True" /\ @ < MaxAlerts THEN @ + 1
                             ELSE @]
             /\ ev' = [op |-> "check", proc |-> p, kind |-> kind, resp |-> f[1],
                       price |-> f[2], called |-> out.called, sent |-> out.sent]
             /\ store' = StoreAfterCheck(store, out)
    /\ UNCHANGED <<procs, overlapped>>
    /\ UNCHANGED harnessVars

\* main, line 179: save_state overwrites state.json with the whole dict.
main_save(p) ==
    /\ pc[p] = "save"
    /\ store' = save_state(mem[p])
    /\ Ended(p, "done")
    /\ ev' = [NoEvent EXCEPT !.op = "save", !.proc = p]
    /\ UNCHANGED <<procs, alerts, overlapped>>
    /\ UNCHANGED harnessVars

\* main, line 179, when write_text raises: the file could not be opened (it
\* is as it was) or was truncated and not written whole (it no longer parses).
main_save_fails(p) ==
    /\ pc[p] = "save"
    /\ \E left \in {"untouched", "truncated"} :
         store' = IF left = "untouched" THEN store
                  ELSE [status |-> "corrupt", doc |-> DefaultState]
    /\ Ended(p, "aborted")
    /\ ev' = [NoEvent EXCEPT !.op = "save_failed", !.proc = p]
    /\ UNCHANGED <<procs, alerts, overlapped>>
    /\ UNCHANGED harnessVars

Start == \E p \in procs : StartRun(p)

CheckElectricity == \E p \in procs : main_check(p, "electricity")

CheckGas == \E p \in procs : main_check(p, "gas")

Save == \E p \in procs : main_save(p)

SaveFails == \E p \in procs : main_save_fails(p)

Next == Start \/ CheckElectricity \/ CheckGas \/ Save \/ SaveFails

Spec == Init /\ [][Next]_vars

\* check_price alone, as a function: a sequence of observations of one
\* commodity, each call given the state the call before returned, every
\* delivery succeeding (credentials set, requests.post answering ok).
InitFeed ==
    /\ MainInit({1})
    /\ hkind \in Kinds
    /\ hstate = DefaultState
    /\ hist = <<>>
    /\ hsent = {}
    /\ ExtractIdle

Feed ==
    /\ Len(hist) < MaxObs
    /\ \E obs \in ExtractedOf(hkind) :
         LET out == check_price(hkind, obs, TargetOf(hkind), hstate, TRUE, "ok")
         IN  /\ hstate' = out.state
             /\ hist' = Append(hist, obs)
             /\ hsent' = IF out.called THEN hsent \cup {Len(hist) + 1} ELSE hsent
    /\ UNCHANGED hkind
    /\ UNCHANGED extractVars
    /\ UNCHANGED mainVars

SpecFeed == InitFeed /\ [][Feed]_vars

\* Two invocations that the scheduler does not keep apart: load_state and
\* save_state take no lock, so one may start while the other is running.
InitOverlap == MainInit({1, 2}) /\ HarnessIdle

StartAnyTime == \E p \in procs : main_load(p) /\ UNCHANGED harnessVars

\* The pages the two invocations are given: answered; the electricity page
\* carries no price or one on either side of the target, the gas page none.
OverlapPricesOf(kind) ==
    IF kind = "electricity" THEN {None, 95, 120} ELSE {None}

OverlapFetch == ev'.resp = "ok" /\ ev'.price \in OverlapPricesOf(ev'.kind)

CheckElectricityOverlap == CheckElectricity /\ OverlapFetch

CheckGasOverlap == CheckGas /\ OverlapFetch

NextOverlap ==
    StartAnyTime \/ CheckElectricityOverlap \/ CheckGasOverlap \/ Save \/ SaveFails

SpecOverlap == InitOverlap /\ [][NextOverlap]_vars

\* extract_price_from_text alone, as a function: a text put together from
\* pieces, and one call on it for a commodity.
RECURSIVE Flat(_)
Flat(segs) == IF segs = <<>> THEN <<>> ELSE Head(segs) \o Flat(Tail(segs))

Text == Flat(page)

InitExtract ==
    /\ MainInit({1})
    /\ hkind = "electricity"
    /\ hstate = DefaultState
    /\ hist = <<>>
    /\ hsent = {}
    /\ page = <<>>
    /\ price_type \in Kinds
    /\ result = NotCalled

AppendSegment ==
    /\ result = NotCalled
    /\ Len(page) < MaxSegs
    /\ \E seg \in Segments : page' = Append(page, seg)
    /\ UNCHANGED <<price_type, result>>
    /\ UNCHANGED <<hkind, hstate, hist, hsent>>
    /\ UNCHANGED mainVars

Extract ==
    /\ result = NotCalled
    /\ result' = extract_price_from_text(Text, price_type)
    /\ UNCHANGED <<page, price_type>>
    /\ UNCHANGED <<hkind, hstate, hist, hsent>>
    /\ UNCHANGED mainVars

NextExtract == AppendSegment \/ Extract

SpecExtract == InitExtract /\ [][NextExtract]_vars

(***************************************************************************)
(* Properties of check_price fed a sequence of observations (SpecFeed).    *)
(***************************************************************************)

Below(i) == hist[i] # None /\ hist[i] < TargetOf(hkind)

AtOrAbove(i) == hist[i] # None /\ hist[i] >= TargetOf(hkind)

\* The index of the last send attempted before observation i (0: none).
LastAlertBefore(i) ==
    LET earlier == {j \in hsent : j < i}
    IN  IF earlier = {} THEN 0
        ELSE CHOOSE j \in earlier : \A k \in earlier : k <= j

\* Observation i is below the target and is the first one below it, or an
\* observation at or above the target came since the last alert.
AlertExpected(i) ==
    /\ Below(i)
    /\ \/ \A j \in 1..(i - 1) : ~Below(j)
       \/ \E k \in (LastAlertBefore(i) + 1)..(i - 1) : AtOrAbove(k)

\* C1: hysteresis. With every delivery succeeding, a send is attempted
\* exactly on the observations below the target that are the first such
\* observation or follow an observation at or above the target since the last
\* alert; 0.05, 0.05, 0.12, 0.05 against 0.11 gives exactly two attempts, on
\* the first and the fourth observation.
C1_Hysteresis ==
    /\ \A i \in 1..Len(hist) : (i \in hsent) <=> AlertExpected(i)
    /\ (hkind = "electricity" /\ hist = <<50, 50, 120, 50>>) => hsent = {1, 4}

C1_Witness ==
    /\ hkind = "electricity"
    /\ hist = <<50, 50, 120, 50>>
    /\ hsent = {1, 4}
    /\ hstate.electricity_notified

\* C8: idempotence. Feeding the observation just fed once more, to the state
\* the first call returned, changes nothing in the state and attempts no
\* send, whatever the observation (below, at or above the target, absent)
\* and whatever the lock was before the first call.
C8_Idempotent ==
    [][(Len(hist) >= 1 /\ hist' = Append(hist, hist[Len(hist)]))
          => (hstate' = hstate /\ hsent' = hsent)]_vars

C8_Witness ==
    /\ Len(hist) = 4
    /\ hist[1] = hist[2] /\ Below(1) /\ 2 \notin hsent
    /\ hist[3] = hist[4] /\ AtOrAbove(3) /\ ~Notified(hstate, hkind)
    /\ hsent = {1}

(***************************************************************************)
(* Properties of the invocations (Spec). ev' holds the inputs and the      *)
(* outcome of the step taken.                                              *)
(***************************************************************************)

\* Invocation p makes its check_price call for kind in this step.
CheckTaken(p, kind) == pc[p] = kind /\ pc'[p] # kind

AfterCheck(kind) == IF kind = "electricity" THEN "gas" ELSE "save"

\* C2: a failed delivery does not set the lock. When the observation is
\* below the target, the lock is clear and send_telegram_message returns
\* False (a credential missing, or the request answered with an error), the
\* state check_price returns has the lock still clear, and main goes on.
C2_FailedDeliveryKeepsLockClear ==
    [][\A p \in procs, k \in Kinds :
          (/\ CheckTaken(p, k)
           /\ ev'.price # None /\ ev'.price < TargetOf(k)
           /\ ~Notified(mem[p], k)
           /\ (ev'.sent = "False" \/ ~creds[p]))
          => (/\ ev'.called /\ ev'.sent = "False"
              /\ pc'[p] = AfterCheck(k)
              /\ ~Notified(mem'[p], k))]_vars

C2_Witness ==
    /\ ev.op = "check" /\ ev.kind = "gas" /\ ev.price = 800
    /\ ev.called /\ ev.sent = "False"
    /\ pc[1] = "save" /\ ~creds[1]
    /\ ~mem[1].gas_notified

\* C3: an absent observation changes nothing. When the fetch gives None,
\* check_price returns the state as it was (last price and lock of the
\* commodity, and all the rest), for either value of the lock, and no send
\* is attempted.
C3_AbsentChangesNothing ==
    [][\A p \in procs, k \in Kinds :
          (CheckTaken(p, k) /\ ev'.price = None)
          => (/\ mem'[p] = mem[p]
              /\ ~ev'.called /\ ev'.sent = "none"
              /\ pc'[p] = AfterCheck(k)
              /\ store' = store)]_vars

C3_Witness ==
    /\ ev.op = "check" /\ ev.kind = "electricity" /\ ev.price = None
    /\ pc[1] = "gas"
    /\ mem[1].electricity_notified
    /\ mem[1].last_electricity_price = 50

\* C4: recovery resets the lock. When the observation is at or above the
\* target (equality included) and the lock is set, the state returned has
\* the lock clear and the observation as last price, and no send is
\* attempted; 0.15 against 0.11 with the lock set gives last price 0.15 and
\* the lock clear.
C4_RecoveryResetsLock ==
    [][\A p \in procs, k \in Kinds :
          (/\ CheckTaken(p, k)
           /\ ev'.price # None /\ ev'.price >= TargetOf(k)
           /\ Notified(mem[p], k))
          => (/\ ~Notified(mem'[p], k)
              /\ LastPrice(mem'[p], k) = ev'.price
              /\ ~ev'.called
              /\ pc'[p] = AfterCheck(k))]_vars

C4_Witness ==
    /\ ev.op = "check" /\ ev.kind = "electricity"
    /\ ev.price = TARGET_ELECTRICITY_PRICE
    /\ pc[1] = "gas"
    /\ store.status = "valid" /\ store.doc.electricity_notified
    /\ ~mem[1].electricity_notified
    /\ mem[1].last_electricity_price = TARGET_ELECTRICITY_PRICE

\* C5: a delivery failure of any kind is recovered locally. A send that does
\* not succeed (a credential missing, an error answer, or the request
\* raising on a network error or a timeout) does not end the invocation: the
\* lock stays clear and main goes on to the next check or to the save; an
\* invocation ends abnormally only in load_state or save_state.
C5_DeliveryFailureRecovered ==
    [][/\ \A p \in procs, k \in Kinds :
            (CheckTaken(p, k) /\ ev'.called /\ ev'.sent # "True")
            => (pc'[p] = AfterCheck(k) /\ ~Notified(mem'[p], k))
       /\ \A p \in procs :
            (pc[p] # "aborted" /\ pc'[p] = "aborted")
            => ev'.op \in {"load", "save_failed"}]_vars

LockOk(s, k) ==
    Notified(s, k) => (LastPrice(s, k) # None /\ LastPrice(s, k) < TargetOf(k))

\* C6: the lock invariant. In state.json and in the state dict of a running
\* invocation, a lock that is set has a last price that is present and
\* strictly below the target; and a lock that is set is cleared only by an
\* observation at or above the target.
C6_LockInvariant ==
    /\ [](\A k \in Kinds :
            /\ store.status = "valid" => LockOk(store.doc, k)
            /\ \A p \in procs : LockOk(mem[p], k))
    /\ [][\A k \in Kinds :
            /\ (/\ store.status = "valid" /\ Notified(store.doc, k)
                /\ store'.status = "valid" /\ ~Notified(store'.doc, k))
               => (/\ LastPrice(store'.doc, k) # None
                   /\ LastPrice(store'.doc, k) >= TargetOf(k))
            /\ \A p \in procs :
                 (/\ pc[p] \notin Terminal /\ pc'[p] \notin Terminal
                  /\ Notified(mem[p], k) /\ ~Notified(mem'[p], k))
                 => (/\ CheckTaken(p, k)
                     /\ ev'.price # None /\ ev'.price >= TargetOf(k))]_vars

C6_Witness ==
    /\ store.status = "valid"
    /\ store.doc.gas_notified /\ store.doc.last_gas_price = 800
    /\ pc[1] = "save"
    /\ ev.op = "check" /\ ev.kind = "gas" /\ ev.price = None
    /\ mem[1].electricity_notified /\ mem[1].last_electricity_price = 95
    /\ mem[1].gas_notified /\ mem[1].last_gas_price = 800

\* C7: only two transitions of the lock. In one call of check_price that
\* returns, the lock goes from clear to set only on an observation below the
\* target with the send of that call succeeding, and from set to clear only
\* on an observation at or above the target; otherwise (below while set, at
\* or above while clear, absent, delivery failed) it keeps its value.
C7_OnlyTwoTransitions ==
    [][\A p \in procs, k \in Kinds :
          (CheckTaken(p, k) /\ pc'[p] # "aborted")
          => LET was == Notified(mem[p], k)
                 is  == Notified(mem'[p], k)
                 obs == ev'.price
             IN  /\ (~was /\ is) => (/\ obs # None /\ obs < TargetOf(k)
                                     /\ ev'.called /\ ev'.sent = "True")
                 /\ (was /\ ~is) => (obs # None /\ obs >= TargetOf(k))
                 /\ (obs # None /\ obs < TargetOf(k) /\ was) => is
                 /\ (obs # None /\ obs >= TargetOf(k) /\ ~was) => ~is
                 /\ obs = None => (is <=> was)
                 /\ (ev'.called /\ ev'.sent = "False") => (~was /\ ~is)]_vars

C7_Witness ==
    /\ ev.op = "check" /\ ev.kind = "gas" /\ ev.price = 800
    /\ ev.called /\ ev.sent = "True"
    /\ pc[1] = "save"
    /\ mem[1].gas_notified
    /\ store.status = "valid" /\ ~store.doc.gas_notified
    /\ store.doc.last_gas_price = 900

\* C9: fetch failures are isolated. A fetch that fails (network error,
\* timeout, 403, any other answer that is not 2xx) gives an absent
\* observation for that commodity, leaves the state as it was and does not
\* end the invocation: main goes on to the other check or to the save.
C9_FetchFailureIsolated ==
    [][\A p \in procs, k \in Kinds :
          (CheckTaken(p, k) /\ ev'.resp # "ok")
          => (/\ ev'.price = None
              /\ mem'[p] = mem[p]
              /\ pc'[p] = AfterCheck(k))]_vars

\* C10: a corrupt state.json is fatal and never overwritten. While the file
\* is corrupt every invocation ends in load_state: nothing is checked, no
\* send is attempted and the file is left as it is; and when the file does
\* not exist load_state returns the default state.
C10_CorruptStateIsFatal ==
    [][/\ store.status = "corrupt"
          => (/\ store' = store
              /\ ev'.op = "load" /\ ~ev'.called
              /\ \A p \in procs :
                   /\ pc'[p] \in Terminal
                   /\ pc'[p] # pc[p] => pc'[p] = "aborted"
                   /\ mem'[p] = DefaultState)
       /\ \A p \in procs :
            (store.status = "missing" /\ pc[p] \in Terminal /\ pc'[p] \notin Terminal)
            => (pc'[p] = "electricity" /\ mem'[p] = DefaultState)]_vars

C10_Witness ==
    /\ store.status = "corrupt"
    /\ pc[1] = "aborted"
    /\ ev.op = "load"

\* C11: a crash before the save. state.json is written only by the save at
\* the end of main, after both checks; when an invocation ends abnormally
\* before it, state.json is exactly what the invocation loaded; and an
\* invocation attempts at most one send per commodity, so the next one
\* repeats an alert delivered in the aborted one at most once.
C11_CrashBeforeSave ==
    [][/\ store' # store => \E q \in procs : pc[q] = "save"
       /\ \A p \in procs :
            /\ (pc[p] \in Kinds /\ pc'[p] = "aborted") => store' = loaded[p]
            /\ pc'[p] \in Kinds \cup {"save"} => store' = loaded'[p]
            /\ \A k \in Kinds : attempts'[p][k] <= 1]_vars

C11_Witness ==
    /\ store.status = "missing"
    /\ alerts["electricity"] = 2 /\ dirty["electricity"]
    /\ pc[1] = "gas"
    /\ ev.op = "check" /\ ev.kind = "electricity" /\ ev.sent = "True"
    /\ attempts[1]["electricity"] = 1

\* C17: a present observation is always stored. Every call of check_price
\* that returns with a price sets the last price of the commodity to it:
\* below the target with the send succeeding or failing, below while the lock
\* is set, at or above with or without the lock; 0.095 against 0.11 with the
\* lock clear and the send succeeding gives last price 0.095 and the lock set.
C17_LastPriceStored ==
    [][\A p \in procs, k \in Kinds :
          (CheckTaken(p, k) /\ pc'[p] # "aborted" /\ ev'.price # None)
          => (/\ LastPrice(mem'[p], k) = ev'.price
              /\ (k = "electricity" /\ ev'.price = 95 /\ ~Notified(mem[p], k)
                    /\ ev'.sent = "True")
                 => Notified(mem'[p], k))]_vars

C17_Witness ==
    /\ ev.op = "check" /\ ev.kind = "electricity" /\ ev.price = 95
    /\ ev.called /\ ev.sent = "True"
    /\ pc[1] = "gas"
    /\ mem[1].last_electricity_price = 95 /\ mem[1].electricity_notified
    /\ loaded[1].doc.last_electricity_price = 150

\* C18: the commodities are independent in the state. A call of check_price
\* for one commodity that returns leaves the last price and the lock of the
\* other commodity as they were, whatever the observation and the delivery.
C18_CommoditiesIndependent ==
    [][\A p \in procs, k \in Kinds, other \in Kinds :
          (CheckTaken(p, k) /\ pc'[p] # "aborted" /\ other # k)
          => (/\ LastPrice(mem'[p], other) = LastPrice(mem[p], other)
              /\ Notified(mem'[p], other) = Notified(mem[p], other))]_vars

C18_Witness ==
    /\ ev.op = "check" /\ ev.kind = "gas" /\ ev.price = 900
    /\ pc[1] = "save"
    /\ loaded[1].doc.gas_notified /\ ~mem[1].gas_notified
    /\ mem[1].electricity_notified /\ mem[1].last_electricity_price = 50

(***************************************************************************)
(* The price of one commodity (hkind) stays below its target on every run  *)
(* (SpecRetry): runs keep being scheduled, each goes on to its end, and a   *)
(* delivery and a save that are possible again and again happen.            *)
(***************************************************************************)

StaysBelow ==
    (ev'.op = "check" /\ ev'.kind = hkind)
    => (ev'.price # None /\ ev'.price < TargetOf(hkind))

CheckElectricityBelow == CheckElectricity /\ StaysBelow

CheckGasBelow == CheckGas /\ StaysBelow

NextRetry == Start \/ CheckElectricityBelow \/ CheckGasBelow \/ Save \/ SaveFails

\* A run that starts with both credentials set, and a send for hkind that
\* is delivered.
StartConfigured == Start /\ \A p \in procs : pc'[p] = "electricity" => creds'[p]

Delivered ==
    (CheckElectricityBelow \/ CheckGasBelow) /\ ev'.kind = hkind /\ ev'.sent = "True"

FairRetry ==
    /\ WF_vars(Start)
    /\ WF_vars(CheckElectricityBelow)
    /\ WF_vars(CheckGasBelow)
    /\ WF_vars(Save \/ SaveFails)
    /\ SF_vars(StartConfigured)
    /\ SF_vars(Delivered)
    /\ SF_vars(Save)

SpecRetry == InitFeed /\ [][NextRetry]_vars /\ FairRetry

\* C12: retry until delivered. While the price of a commodity stays below
\* its target and its lock is clear in state.json, every run attempts the
\* delivery again; the lock is eventually set in state.json; and a run that
\* loads the lock set attempts no send for the commodity.
C12_RetryUntilDelivered ==
    /\ [][\A p \in procs :
            /\ (/\ pc[p] \notin Terminal /\ pc'[p] \in Terminal
                /\ loaded[p].status # "corrupt"
                /\ ~Notified(loaded[p].doc, hkind))
               => \/ attempts[p][hkind] >= 1
                  \/ ev'.op = "check" /\ ev'.kind = hkind /\ ev'.called
            /\ (pc'[p] \notin Terminal /\ Notified(loaded'[p].doc, hkind))
               => attempts'[p][hkind] = 0]_vars
    /\ <>(store.status = "valid" /\ Notified(store.doc, hkind))

(***************************************************************************)
(* Invocations that overlap (SpecOverlap).                                 *)
(***************************************************************************)

\* C15: overlapping invocations race. As long as no invocation was started
\* while another one was running and none ended abnormally since the price of
\* a commodity was last at or above its target, at most one alert was
\* delivered for that commodity since then; and every save replaces the whole
\* of state.json by the saving invocation's own state, whatever another
\* invocation wrote there after this one loaded.
C15_OverlapRace ==
    /\ [](\A k \in Kinds : (~overlapped /\ ~dirty[k]) => alerts[k] <= 1)
    /\ [][\A p \in procs :
            (ev'.op = "save" /\ ev'.proc = p)
            => store' = [status |-> "valid", doc |-> mem[p]]]_vars

\* Two overlapping invocations both delivered the electricity alert of one
\* episode below the target, none ended abnormally, and the second of them
\* has just saved over what the first one saved.
C15_Witness ==
    /\ overlapped
    /\ alerts["electricity"] = 2
    /\ ~dirty["electricity"]
    /\ \A p \in procs : pc[p] = "done"
    /\ ev.op = "save"
    /\ store.status = "valid"
    /\ Notified(store.doc, "electricity")

(***************************************************************************)
(* Properties of extract_price_from_text (SpecExtract).                    *)
(***************************************************************************)

Called == result # NotCalled

\* The text with every fractional separator a period, and with every one a
\* comma.
Periods(text) == replace(text, ",", ".")

Commas(text) == replace(text, ".", ",")

\* C13: separator equivalence. Whatever the text and the commodity, the call
\* returns the same as on the text with its numerals written with a period
\* and as on the text with its numerals written with a comma, and it never
\* raises.
C13_SeparatorEquivalence ==
    Called =>
        /\ result = extract_price_from_text(Periods(Text), price_type)
        /\ result = extract_price_from_text(Commas(Text), price_type)
        /\ result.ret # "raise"

\* "0,1067 €/kWh" gives 0.1067.
C13_Witness ==
    /\ page = <<N1067c \o <<" ", "€", "/", "k", "W", "h">> >>
    /\ result = Price(<<0, 1067, 4>>)

\* The patterns of the commodity that match the lower-cased text.
Hits == {i \in 1..Len(patterns(price_type)) :
            search(patterns(price_type)[i], lower(Text)).ok}

FirstHit == CHOOSE i \in Hits : \A j \in Hits : i <= j

\* C14: extraction is order-sensitive. When a pattern of the commodity
\* matches, the call returns the numeral of the first such pattern in the
\* order of the list, whatever the fallback pattern would match and wherever.
C14_OrderSensitive ==
    (Called /\ Hits # {}) =>
        result = Price(float(Periods(
                    search(patterns(price_type)[FirstHit], lower(Text)).group1)).value)

\* "0,0950 € €0,0950/kWh0.1067 €/kWh": the fallback would match 0,0950 at the
\* start, the second pattern matches 0,0950 before the place where the first
\* pattern matches 0.1067, and the call returns 0.1067.
C14_Witness ==
    /\ page = << N0950c \o <<" ", "€", " ">>,
                 <<"€">> \o N0950c \o <<"/", "k", "W", "h">>,
                 N1067 \o <<" ", "€", "/", "k", "W", "h">> >>
    /\ price_type = "electricity"
    /\ search(GenericPattern, lower(Text)).group1 = N0950c
    /\ Hits = {1, 2, 5, 6}
    /\ result = Price(<<0, 1067, 4>>)

\* A numeral followed by the short unit of the commodity: €/kW, €/mc.
ShortUnit(kind) ==
    Numeral \o <<Star(Whitespace)>>
    \o Word(IF kind = "gas" THEN <<"€", "/", "m", "c">> ELSE <<"€", "/", "k", "w">>)

\* The numerals a pattern matches in the text, at whatever place.
AllMatches(pattern, text) ==
    { SubSeq(text, m.s, m.e - 1) :
        m \in { mm \in { Match(pattern, text, i, 0, 0) : i \in 1..Len(text) } : mm.ok } }

\* The numerals of the lower-cased text that a unit of the commodity follows:
\* the short unit, or what a pattern of the commodity matches.
UnitNumerals ==
    AllMatches(ShortUnit(price_type), lower(Text))
    \cup UNION { AllMatches(patterns(price_type)[i], lower(Text)) :
                  i \in 1..Len(patterns(price_type)) }

\* C16: unit-token tolerance. When the text has a numeral followed by €/kW
\* (electricity) or €/mc (gas), in any case of the letters, the call returns a
\* numeral that a unit of the commodity follows, and not a decimal that only
\* a € follows.
C16_UnitTokenTolerance ==
    (Called /\ search(ShortUnit(price_type), lower(Text)).ok) =>
        /\ result.ret = "price"
        /\ result.value \in { float(Periods(g)).value : g \in UnitNumerals }

====
